---------------------------- MODULE Spec2Model ----------------------------
(***************************************************************************)
(* A model of the cuebox-onboarding pipeline (helpers.py,                  *)
(* make_constituents.py, make_tags.py).                                    *)
(*                                                                         *)
(* Cell values are TLA+ strings; the string functions of the source        *)
(* (strip, lower, replace, split, the e-mail regular expression, float())  *)
(* are computed character by character on Chars(s).  A missing cell        *)
(* (pandas NaN, Python None) is the value NaN.  Python dicts are functions *)
(* whose DOMAIN is the key set; an Optional[float] is <<>> (None) or <<v>>  *)
(* with v the amount in cents.                                             *)
(***************************************************************************)
EXTENDS Integers, Sequences, FiniteSets, TLC

VARIABLES
    pc,             \* position in the running program
    df_e,           \* the e-mail table: rows [pid, email]
    emails_lookup,  \* build_email_lookup(df_e)
    email_query,    \* the (patron_id, primary_email) last given to pick_email1_email2
    email_pair,     \* what pick_email1_email2 returned for email_query
    df_d,           \* the donation table: rows [pid, amount, date, status]
    has_status,     \* whether the donation table has a Status column
    lifetime,       \* build_donation_aggregates(df_d)[0]
    recent,         \* build_donation_aggregates(df_d)[1]
    cache_file,     \* the cache file: [exists, parses, content]
    cache0,         \* the cache file when the current run started
    tag_map,        \* what fetch_tag_mapping returned
    net_requests,   \* requests.get calls of the current run
    net_result,     \* outcome of the run's request: "none", "ok" or a failure
    cache_writes,   \* attempted cache_file.write_text calls of the current run
    events,         \* what fetch_tag_mapping touched, in order
    run,            \* the number of the current run
    df_c,           \* the constituent table
    row_i,          \* index of the next row of the main loop
    rows,           \* the output records built so far (df_out)
    issues,         \* validate_constituents(df_out)
    pairs,          \* make_tags: the (Patron ID, Tag) pairs
    tag_report      \* make_tags: the report rows [tag, count]

vars == <<pc, df_e, emails_lookup, email_query, email_pair, df_d, has_status,
          lifetime, recent, cache_file, cache0, tag_map, net_requests,
          net_result, cache_writes, events, run, df_c, row_i, rows, issues,
          pairs, tag_report>>

emailVars == <<df_e, emails_lookup, email_query, email_pair>>
donVars   == <<df_d, has_status, lifetime, recent>>
fetchVars == <<cache_file, cache0, tag_map, net_requests, net_result,
               cache_writes, events, run>>
buildVars == <<df_c, row_i, rows, issues>>
tagVars   == <<pairs, tag_report>>

-----------------------------------------------------------------------------
(* Strings *)

NaN == "<NaN>"

isna(x) == x = NaN

Chars(s) == [i \in 1..Len(s) |-> SubSeq(s, i, i)]

RECURSIVE Str(_)
Str(cs) == IF cs = <<>> THEN "" ELSE Head(cs) \o Str(Tail(cs))

\* The characters the inputs use, in code-point order.
Ascii == Chars(" $%+,-./0123456789:@ABCDEFGHIJKLMNOPQRSTUVWXYZ_abcdefghijklmnopqrstuvwxyz")

Ord(c) == CHOOSE i \in 1..Len(Ascii) : Ascii[i] = c

UpperCs  == Chars("ABCDEFGHIJKLMNOPQRSTUVWXYZ")
LowerCs  == Chars("abcdefghijklmnopqrstuvwxyz")
DigitCs  == Chars("0123456789")
Range(f) == {f[i] : i \in DOMAIN f}
Letters  == Range(UpperCs) \cup Range(LowerCs)
Digits   == Range(DigitCs)

IsSpace(c) == c = " "

LowerChar(c) ==
    IF c \in Range(UpperCs)
    THEN LowerCs[CHOOSE i \in 1..Len(UpperCs) : UpperCs[i] = c]
    ELSE c

\* str.lower()
Lower(s) == Str([i \in 1..Len(s) |-> LowerChar(Chars(s)[i])])

\* str.strip()
Strip(s) ==
    LET cs == Chars(s)
        ns == {i \in 1..Len(cs) : ~IsSpace(cs[i])}
    IN IF ns = {} THEN ""
       ELSE LET lo == CHOOSE i \in ns : \A j \in ns : i <= j
                hi == CHOOSE i \in ns : \A j \in ns : i >= j
            IN SubSeq(s, lo, hi)

\* str.replace(c, "") for a one-character c
RECURSIVE RemoveCs(_, _)
RemoveCs(cs, c) ==
    IF cs = <<>> THEN <<>>
    ELSE IF Head(cs) = c THEN RemoveCs(Tail(cs), c)
    ELSE <<Head(cs)>> \o RemoveCs(Tail(cs), c)

Remove(s, c) == Str(RemoveCs(Chars(s), c))

\* Python's < on str: by code point, a proper prefix first.
RECURSIVE CsLess(_, _)
CsLess(a, b) ==
    IF b = <<>> THEN FALSE
    ELSE IF a = <<>> THEN TRUE
    ELSE IF Head(a) = Head(b) THEN CsLess(Tail(a), Tail(b))
    ELSE Ord(Head(a)) < Ord(Head(b))

StrLess(a, b) == CsLess(Chars(a), Chars(b))

\* str(x) of a cell, as astype(str) gives it
AsStr(x) == IF isna(x) THEN "nan" ELSE x

clean_str(x) == IF isna(x) THEN "" ELSE Strip(x)

-----------------------------------------------------------------------------
(* E-mail: normalize_email *)

LocalChars  == Letters \cup Digits \cup {".", "_", "%", "+", "-"}
DomainChars == Letters \cup Digits \cup {".", "-"}

\* EMAIL_RE.match(s): ^[A-Za-z0-9._%+\-]+@[A-Za-z0-9.\-]+\.[A-Za-z]{2,}$
EMAIL_RE_match(s) ==
    LET cs == Chars(s)
        n  == Len(cs)
    IN \E at \in 2..n : \E dot \in (at + 2)..(n - 2) :
          /\ cs[at] = "@"
          /\ cs[dot] = "."
          /\ \A i \in 1..(at - 1) : cs[i] \in LocalChars
          /\ \A i \in (at + 1)..(dot - 1) : cs[i] \in DomainChars
          /\ \A i \in (dot + 1)..n : cs[i] \in Letters

normalize_email(x) ==
    LET s == Lower(clean_str(x))
    IN IF s = "" THEN "" ELSE IF EMAIL_RE_match(s) THEN s ELSE ""

-----------------------------------------------------------------------------
(* Donations: parse_amount, pd.to_datetime *)

None == <<>>
Some(v) == <<v>>

DigitVal(c) == (CHOOSE i \in 1..Len(DigitCs) : DigitCs[i] = c) - 1

RECURSIVE DigitsVal(_)
DigitsVal(cs) ==
    IF cs = <<>> THEN 0 ELSE DigitsVal(SubSeq(cs, 1, Len(cs) - 1)) * 10 + DigitVal(cs[Len(cs)])

\* float(s), in cents, for the decimal literals [+-]ddd[.dd]; ValueError is None.
\* (Exponents, inf/nan, "_" and more than two fractional digits are not modelled:
\* no input of the model uses them.)
PyFloat(s) ==
    LET t    == Chars(Strip(s))
        sgn  == IF t # <<>> /\ t[1] = "-" THEN -1 ELSE 1
        u    == IF t # <<>> /\ t[1] \in {"-", "+"} THEN Tail(t) ELSE t
        dots == {i \in 1..Len(u) : u[i] = "."}
        ip   == IF dots = {} THEN u ELSE SubSeq(u, 1, (CHOOSE i \in dots : TRUE) - 1)
        fp   == IF dots = {} THEN <<>> ELSE SubSeq(u, (CHOOSE i \in dots : TRUE) + 1, Len(u))
        ok   == /\ Cardinality(dots) <= 1
                /\ Len(ip) + Len(fp) > 0
                /\ Len(fp) <= 2
                /\ \A i \in 1..Len(ip) : ip[i] \in Digits
                /\ \A i \in 1..Len(fp) : fp[i] \in Digits
        frac == IF Len(fp) = 0 THEN 0
                ELSE IF Len(fp) = 1 THEN DigitsVal(fp) * 10 ELSE DigitsVal(fp)
    IN IF ok THEN Some(sgn * (DigitsVal(ip) * 100 + frac)) ELSE None

parse_amount(x) ==
    IF isna(x) THEN None
    ELSE LET s == Remove(Remove(clean_str(x), "$"), ",")
         IN IF s = "" THEN None ELSE PyFloat(s)

\* A Timestamp: day is YYYYMMDD and sec the second of the day, so that (day, sec)
\* orders Timestamps chronologically; text is its "%Y-%m-%d %H:%M:%S" form.
NaT == [day |-> 0, sec |-> 0, text |-> ""]

TsLess(a, b) == a.day < b.day \/ (a.day = b.day /\ a.sec < b.sec)

DaysIn(m) == IF m = 2 THEN 28 ELSE IF m \in {4, 6, 9, 11} THEN 30 ELSE 31

\* pd.to_datetime(x, errors="coerce") for the ISO forms "YYYY-MM-DD" and
\* "YYYY-MM-DD HH:MM:SS"; anything else is NaT.  (pandas accepts more formats;
\* the inputs of the model use only these.)
to_datetime(x) ==
    IF isna(x) THEN NaT
    ELSE LET s  == Strip(x)
             cs == Chars(s)
             num(a, b) == DigitsVal(SubSeq(cs, a, b))
             dig(a, b) == \A i \in a..b : cs[i] \in Digits
             dateOk == /\ Len(cs) >= 10
                       /\ dig(1, 4) /\ cs[5] = "-" /\ dig(6, 7) /\ cs[8] = "-" /\ dig(9, 10)
                       /\ num(6, 7) \in 1..12
                       /\ num(9, 10) \in 1..DaysIn(num(6, 7))
             timeOk == /\ Len(cs) = 19
                       /\ cs[11] = " "
                       /\ dig(12, 13) /\ cs[14] = ":" /\ dig(15, 16) /\ cs[17] = ":" /\ dig(18, 19)
                       /\ num(12, 13) < 24 /\ num(15, 16) < 60 /\ num(18, 19) < 60
             day == num(1, 4) * 10000 + num(6, 7) * 100 + num(9, 10)
         IN IF dateOk /\ Len(cs) = 10
            THEN [day |-> day, sec |-> 0, text |-> s \o " 00:00:00"]
            ELSE IF dateOk /\ timeOk
            THEN [day |-> day, sec |-> num(12, 13) * 3600 + num(15, 16) * 60 + num(18, 19),
                  text |-> s]
            ELSE NaT

\* df["Patron ID"].astype(str).str.strip()
PatronKey(x) == Strip(AsStr(x))

\* df["Status"].astype(str).str.strip().str.lower() == "paid"
IsPaidCell(x) == Lower(Strip(AsStr(x))) = "paid"

-----------------------------------------------------------------------------
(* Titles, created-at, tags, currency, constituent type *)

ALLOWED_TITLES == {"Mr.", "Mrs.", "Ms.", "Dr.", ""}

normalize_salutation_to_cb_title(x) ==
    LET s == Lower(Remove(clean_str(x), "."))
    IN IF s = "mr" THEN "Mr."
       ELSE IF s = "mrs" THEN "Mrs."
       ELSE IF s = "ms" THEN "Ms."
       ELSE IF s = "dr" THEN "Dr."
       ELSE ""

\* dt.normalize().strftime("%Y-%m-%d %H:%M:%S")
parse_created_at(x) ==
    LET s == clean_str(x)
    IN IF s = "" THEN ""
       ELSE IF to_datetime(s) = NaT THEN ""
       ELSE SubSeq(to_datetime(s).text, 1, 10) \o " 00:00:00"

\* s.split(",")
RECURSIVE SplitCs(_, _)
SplitCs(cs, cur) ==
    IF cs = <<>> THEN <<Str(cur)>>
    ELSE IF Head(cs) = "," THEN <<Str(cur)>> \o SplitCs(Tail(cs), <<>>)
    ELSE SplitCs(Tail(cs), Append(cur, Head(cs)))

Split(s) == SplitCs(Chars(s), <<>>)

\* [f(t) for t in items if keep(t)]
RECURSIVE StripNonBlank(_)
StripNonBlank(items) ==
    IF items = <<>> THEN <<>>
    ELSE IF Strip(Head(items)) # "" THEN <<Strip(Head(items))>> \o StripNonBlank(Tail(items))
    ELSE StripNonBlank(Tail(items))

RECURSIVE DropEmpty(_)
DropEmpty(items) ==
    IF items = <<>> THEN <<>>
    ELSE IF Head(items) # "" THEN <<Head(items)>> \o DropEmpty(Tail(items))
    ELSE DropEmpty(Tail(items))

split_tags(x) ==
    LET s == clean_str(x)
    IN IF s = "" THEN <<>> ELSE StripNonBlank(Split(s))

RECURSIVE DedupeFrom(_, _)
DedupeFrom(items, seen) ==
    IF items = <<>> THEN <<>>
    ELSE IF Head(items) \in seen THEN DedupeFrom(Tail(items), seen)
    ELSE <<Head(items)>> \o DedupeFrom(Tail(items), seen \cup {Head(items)})

\* A faulty variant: nothing is removed.
dedupe_preserve_order_none(items) == items

dedupe_preserve_order(items) == DedupeFrom(items, {})

\* sep.join(items)
RECURSIVE Join(_, _)
Join(items, sep) ==
    IF items = <<>> THEN ""
    ELSE IF Len(items) = 1 THEN items[1]
    ELSE items[1] \o sep \o Join(Tail(items), sep)

\* tag_map.get(t, t)
map_tag(m, t) == IF t \in DOMAIN m THEN m[t] ELSE t

MapTags(m, items) == [i \in 1..Len(items) |-> map_tag(m, items[i])]

RECURSIVE NatStr(_)
NatStr(n) == IF n < 10 THEN DigitCs[n + 1] ELSE NatStr(n \div 10) \o DigitCs[(n % 10) + 1]

\* the "," grouping of format spec ",": a comma before every group of three digits
RECURSIVE Grouped(_)
Grouped(n) ==
    IF n < 1000 THEN NatStr(n)
    ELSE LET g == n % 1000
         IN Grouped(n \div 1000) \o "," \o
            (IF g < 10 THEN "00" ELSE IF g < 100 THEN "0" ELSE "") \o NatStr(g)

\* f"${x:,.2f}" of an amount in cents; None (or NaN) is ""
fmt_currency(x) ==
    IF x = None THEN ""
    ELSE LET a == IF x[1] < 0 THEN -x[1] ELSE x[1]
             c == a % 100
         IN "$" \o (IF x[1] < 0 THEN "-" ELSE "") \o Grouped(a \div 100) \o "."
            \o (IF c < 10 THEN "0" ELSE "") \o NatStr(c)

\* A faulty variant: any row with a company is a Company.
infer_constituent_type_company_only(first_name, last_name, company) ==
    IF company # "" THEN "Company" ELSE "Person"

infer_constituent_type(first_name, last_name, company) ==
    IF company # "" /\ first_name = "" /\ last_name = "" THEN "Company" ELSE "Person"

-----------------------------------------------------------------------------
(* Bounds and input pools *)

MaxEmailRows == 3
MaxDonRows   == 2

SeqsUpTo(S, n) == UNION {[1..k -> S] : k \in 0..n}

EmailPids  == {"P1", "P2 "}
EmailCells == {"a@x.io", " A@X.io ", "b@x.io", "bad@x", NaN}
QueryPids  == {"P1", "P2", "P9"}
EmailRows  == [pid : EmailPids, email : EmailCells]

DonPids     == {"P1", " P2"}
AmountCells == {"$1,000.50", "20", "abc", NaN}
DateCells   == {"2023-01-01", "2023-06-15", "n/a"}
StatusCells == {" PAID", "Refunded"}
DonRows(hasStatus) ==
    [pid : DonPids, amount : AmountCells, date : DateCells,
     status : IF hasStatus THEN StatusCells ELSE {NaN}]

MaxRows    == 2
MaxTagRows == 3
MaxItems   == 2
MaxRuns    == 3

\* constituent rows: who it is, and the rest of the row
IdentPool ==
    { [pid |-> "P1",  first |-> "Ann", last |-> "Lee", company |-> NaN],
      [pid |-> " P1", first |-> NaN,   last |-> NaN,   company |-> "Acme"],
      [pid |-> "P2",  first |-> NaN,   last |-> NaN,   company |-> NaN],
      [pid |-> "P2",  first |-> "Bob", last |-> NaN,   company |-> "Initech"] }

DetailPool ==
    { [date |-> "2023-01-05 10:30:00", salutation |-> "mr.", email |-> " A@X.io ",
       tags |-> "vip, vip, donor", title |-> "CEO"],
      [date |-> "n/a", salutation |-> "Prof.", email |-> "bad@x",
       tags |-> "gold,VIP-Tier, ,blank", title |-> NaN],
      [date |-> NaN, salutation |-> NaN, email |-> NaN, tags |-> NaN, title |-> NaN] }

ConstituentRows ==
    {[pid |-> a.pid, first |-> a.first, last |-> a.last, company |-> a.company,
      date |-> b.date, salutation |-> b.salutation, email |-> b.email,
      tags |-> b.tags, title |-> b.title] : a \in IdentPool, b \in DetailPool}

TagPids  == {"P1", " P1", "P2"}
TagCells == {"vip, vip, donor", "gold,VIP-Tier, ,blank", NaN}
TagRows  == [pid : TagPids, tags : TagCells]

\* the tables the whole pipeline is run on, besides the constituent table
BuildEmailTables ==
    { <<>>,
      <<[pid |-> "P1", email |-> "b@x.io"], [pid |-> "P1", email |-> "a@x.io"],
        [pid |-> "P2 ", email |-> " A@X.io "]>> }

BuildDonTables ==
    { <<[pid |-> "P1", amount |-> "$1,000.50", date |-> "2023-06-15", status |-> " PAID"],
        [pid |-> "P1", amount |-> "20", date |-> "2023-06-15", status |-> " PAID"],
        [pid |-> " P2", amount |-> "abc", date |-> "n/a", status |-> "Refunded"]>> }

\* what the mapping service may return: {name, mapped_name} objects
ItemPool ==
    { [name |-> "vip", mapped_name |-> "VIP-Tier"],
      [name |-> " gold ", mapped_name |-> " VIP-Tier"],
      [name |-> "vip", mapped_name |-> "Gold"],
      [name |-> "blank", mapped_name |-> NaN],
      [name |-> NaN, mapped_name |-> "Y"] }

\* what a cache file left by an earlier run (or by hand) may hold
CacheContents ==
    { <<>>,
      [t \in {"vip"} |-> "VIP-Tier"],
      [t \in {"vip", "gold", "blank"} |-> IF t = "blank" THEN "" ELSE "VIP-Tier"],
      [t \in {"vip", "donor"} |-> IF t = "vip" THEN " VIP-Tier " ELSE " "] }

NoCache      == [exists |-> FALSE, parses |-> FALSE, content |-> <<>>]
BadCache     == [exists |-> TRUE, parses |-> FALSE, content |-> <<>>]
GoodCache(m) == [exists |-> TRUE, parses |-> TRUE, content |-> m]
Caches       == {NoCache, BadCache} \cup {GoodCache(m) : m \in CacheContents}

\* the cache files the two pipelines are run with: none, or one with entries
PipelineCaches ==
    {NoCache} \cup {GoodCache(m) : m \in {c \in CacheContents :
                                             "gold" \in DOMAIN c \/ "donor" \in DOMAIN c}}

\* every way requests.get / raise_for_status / r.json / the loop can fail
NetFailures == {"connection_error", "timeout", "http_error", "bad_json", "bad_shape"}

\* the tags a resolve is asked about
TagPool == {"VIP", "vip", "gold", "donor", "blank", "VIP-Tier"}


-----------------------------------------------------------------------------
(* The scalar normalizers tabulated over the cells of the pools: T_f[x] = f(x) *)

Cells == EmailPids \cup EmailCells \cup DonPids \cup AmountCells \cup DateCells
         \cup StatusCells \cup {NaN} \cup QueryPids \cup TagPids \cup TagCells
         \cup UNION {{r.pid, r.first, r.last, r.company, r.date, r.salutation,
                      r.email, r.tags, r.title} : r \in ConstituentRows}

T_normalize_email == [x \in Cells |-> normalize_email(x)]
T_PatronKey       == [x \in Cells |-> PatronKey(x)]
T_parse_amount    == [x \in Cells |-> parse_amount(x)]
T_to_datetime     == [x \in Cells |-> to_datetime(x)]
T_IsPaid          == [x \in Cells |-> IsPaidCell(x)]
T_clean_str       == [x \in Cells |-> clean_str(x)]
T_split_tags      == [x \in Cells |-> split_tags(x)]
T_title           == [x \in Cells |-> normalize_salutation_to_cb_title(x)]
T_created_at      == [x \in Cells |-> parse_created_at(x)]

-----------------------------------------------------------------------------
(* E-mail: build_email_lookup, pick_email1_email2 *)

\* sorted(set(...)): ascending, duplicate-free
RECURSIVE SortedSeq(_)
SortedSeq(S) ==
    IF S = {} THEN <<>>
    ELSE LET m == CHOOSE x \in S : \A y \in S \ {x} : StrLess(x, y)
         IN <<m>> \o SortedSeq(S \ {m})

\* A faulty variant: the addresses in table order, repeats kept.
build_email_lookup_dup(df) ==
    LET kept == {i \in 1..Len(df) : T_normalize_email[df[i].email] # ""}
        keys == {T_PatronKey[df[i].pid] : i \in kept}
        idx(k) == {i \in kept : T_PatronKey[df[i].pid] = k}
    IN [k \in keys |->
          LET is == idx(k)
              RECURSIVE walk(_)
              walk(i) == IF i > Len(df) THEN <<>>
                         ELSE IF i \in is
                         THEN <<T_normalize_email[df[i].email]>> \o walk(i + 1)
                         ELSE walk(i + 1)
          IN walk(1)]

build_email_lookup(df) ==
    LET kept == {i \in 1..Len(df) : T_normalize_email[df[i].email] # ""}
        keys == {T_PatronKey[df[i].pid] : i \in kept}
    IN [k \in keys |->
          SortedSeq({T_normalize_email[df[i].email] :
                       i \in {j \in kept : T_PatronKey[df[j].pid] = k}})]

\* emails_lookup.get(patron_id, [])
LookupGet(lookup, k) == IF k \in DOMAIN lookup THEN lookup[k] ELSE <<>>

\* the for loop: the first candidate that differs from email1, else ""
RECURSIVE FirstOther(_, _)
FirstOther(cands, email1) ==
    IF cands = <<>> THEN ""
    ELSE IF Head(cands) # email1 THEN Head(cands)
    ELSE FirstOther(Tail(cands), email1)

\* A faulty variant: email2 is the first candidate, whatever email1 is.
pick_email1_email2_first(patron_id, primary_email, lookup) ==
    LET primary    == T_normalize_email[primary_email]
        candidates == LookupGet(lookup, patron_id)
        email1     == IF primary # "" THEN primary
                      ELSE IF candidates # <<>> THEN candidates[1] ELSE ""
    IN IF email1 = "" THEN <<"", "">>
       ELSE <<email1, IF candidates # <<>> THEN candidates[1] ELSE "">>

pick_email1_email2(patron_id, primary_email, lookup) ==
    LET primary    == T_normalize_email[primary_email]
        candidates == LookupGet(lookup, patron_id)
        email1     == IF primary # "" THEN primary
                      ELSE IF candidates # <<>> THEN candidates[1] ELSE ""
    IN IF email1 = "" THEN <<"", "">>
       ELSE <<email1, FirstOther(candidates, email1)>>

-----------------------------------------------------------------------------
(* Donations: build_donation_aggregates *)

Retained(df, hasStatus) ==
    {i \in 1..Len(df) : hasStatus => T_IsPaid[df[i].status]}

RECURSIVE SumAmounts(_, _, _)
SumAmounts(df, is, i) ==
    IF i > Len(df) THEN 0
    ELSE (IF i \in is THEN T_parse_amount[(df[i].amount)][1] ELSE 0) + SumAmounts(df, is, i + 1)

\* Series.idxmax(): the label of the first occurrence of the maximum
RECURSIVE idxmax_last(_, _, _, _)
\* A faulty variant: the last occurrence of the maximum.
idxmax_last(df, is, i, best) ==
    IF i > Len(df) THEN best
    ELSE IF i \in is /\ (best = 0 \/ ~TsLess(T_to_datetime[(df[i].date)], T_to_datetime[(df[best].date)]))
    THEN idxmax_last(df, is, i + 1, i)
    ELSE idxmax_last(df, is, i + 1, best)

RECURSIVE idxmax(_, _, _, _)
idxmax(df, is, i, best) ==
    IF i > Len(df) THEN best
    ELSE IF i \in is /\ (best = 0 \/ TsLess(T_to_datetime[(df[best].date)], T_to_datetime[(df[i].date)]))
    THEN idxmax(df, is, i + 1, i)
    ELSE idxmax(df, is, i + 1, best)

\* A faulty variant: the Status filter is not applied.
lifetime_sum_all(df, hasStatus) ==
    LET kept == {i \in 1..Len(df) : T_parse_amount[(df[i].amount)] # None}
        keys == {T_PatronKey[df[i].pid] : i \in kept}
    IN [k \in keys |-> SumAmounts(df, {i \in kept : T_PatronKey[df[i].pid] = k}, 1)]

\* df.dropna(subset=["Amount_num"]).groupby("Patron ID")["Amount_num"].sum().to_dict()
lifetime_sum(df, hasStatus) ==
    LET kept == {i \in Retained(df, hasStatus) : T_parse_amount[(df[i].amount)] # None}
        keys == {T_PatronKey[df[i].pid] : i \in kept}
    IN [k \in keys |-> SumAmounts(df, {i \in kept : T_PatronKey[df[i].pid] = k}, 1)]

\* A faulty variant: on equal dates the last row wins.
most_recent_last(df, hasStatus) ==
    LET kept == {i \in Retained(df, hasStatus) : T_to_datetime[(df[i].date)] # NaT}
        keys == {T_PatronKey[df[i].pid] : i \in kept}
    IN [k \in keys |->
          LET at == idxmax_last(df, {i \in kept : T_PatronKey[df[i].pid] = k}, 1, 0)
          IN [Date_dt |-> T_to_datetime[(df[at].date)],
              Amount_num |-> T_parse_amount[(df[at].amount)]]]

\* df_recent.loc[df_recent.groupby("Patron ID")["Date_dt"].idxmax(), ...].to_dict("index")
most_recent(df, hasStatus) ==
    LET kept == {i \in Retained(df, hasStatus) : T_to_datetime[(df[i].date)] # NaT}
        keys == {T_PatronKey[df[i].pid] : i \in kept}
    IN [k \in keys |->
          LET at == idxmax(df, {i \in kept : T_PatronKey[df[i].pid] = k}, 1, 0)
          IN [Date_dt |-> T_to_datetime[(df[at].date)],
              Amount_num |-> T_parse_amount[(df[at].amount)]]]

build_donation_aggregates(df, hasStatus) ==
    <<lifetime_sum(df, hasStatus), most_recent(df, hasStatus)>>

-----------------------------------------------------------------------------
(* Initial values *)

InitEmailVars(tables) ==
    /\ df_e \in tables
    /\ emails_lookup = <<>>
    /\ email_query = <<"", "">>
    /\ email_pair = <<"", "">>

InitDonVars(flags) ==
    /\ has_status \in flags
    /\ df_d \in SeqsUpTo(DonRows(has_status), IF flags = {FALSE} THEN 0 ELSE MaxDonRows)
    /\ lifetime = <<>>
    /\ recent = <<>>

InitFetchVars(caches) ==
    /\ cache_file \in caches
    /\ cache0 = cache_file
    /\ tag_map = <<>>
    /\ net_requests = 0
    /\ net_result = "none"
    /\ cache_writes = 0
    /\ events = <<>>
    /\ run = 1

InitBuildVars(tables) ==
    /\ df_c \in tables
    /\ row_i = 1
    /\ rows = <<>>
    /\ issues = <<>>

InitTagVars ==
    /\ pairs = <<>>
    /\ tag_report = <<>>

-----------------------------------------------------------------------------
(* The e-mail resolver on its own: build the index, then pick pairs *)

\* make_constituents.main line 78
BuildEmailLookup(next) ==
    /\ pc = "emails"
    /\ emails_lookup' = build_email_lookup(df_e)
    /\ pc' = next
    /\ UNCHANGED <<df_e, email_query, email_pair, donVars, fetchVars, buildVars, tagVars>>

\* one call of pick_email1_email2 on the index
PickEmail ==
    /\ pc \in {"pick", "picked"}
    /\ \E pid \in QueryPids, primary \in EmailCells :
          /\ email_query' = <<pid, primary>>
          /\ email_pair' = pick_email1_email2(pid, primary, emails_lookup)
    /\ pc' = "picked"
    /\ UNCHANGED <<df_e, emails_lookup, donVars, fetchVars, buildVars, tagVars>>

InitEmail ==
    /\ pc = "emails"
    /\ InitEmailVars(SeqsUpTo(EmailRows, MaxEmailRows))
    /\ InitDonVars({FALSE})
    /\ InitFetchVars({NoCache})
    /\ InitBuildVars({<<>>})
    /\ InitTagVars

NextEmail == BuildEmailLookup("pick") \/ PickEmail

SpecEmail == InitEmail /\ [][NextEmail]_vars

-----------------------------------------------------------------------------
(* The donation aggregator on its own *)

\* make_constituents.main line 79
BuildDonationAggregates(next) ==
    /\ pc = "donations"
    /\ lifetime' = build_donation_aggregates(df_d, has_status)[1]
    /\ recent' = build_donation_aggregates(df_d, has_status)[2]
    /\ pc' = next
    /\ UNCHANGED <<df_d, has_status, emailVars, fetchVars, buildVars, tagVars>>

InitDonation ==
    /\ pc = "donations"
    /\ InitEmailVars({<<>>})
    /\ InitDonVars(BOOLEAN)
    /\ InitFetchVars({NoCache})
    /\ InitBuildVars({<<>>})
    /\ InitTagVars

NextDonation == BuildDonationAggregates("aggregated")

SpecDonation == InitDonation /\ [][NextDonation]_vars

-----------------------------------------------------------------------------
(* fetch_tag_mapping, step by step; a run is one execution of a main() *)

DictPut(m, k, v) == [x \in DOMAIN m \cup {k} |-> IF x = k THEN v ELSE m[x]]

\* the loop over the response: keep the items with a name and a mapped name
RECURSIVE BuildMapping(_, _)
BuildMapping(data, m) ==
    IF data = <<>> THEN m
    ELSE LET name   == clean_str(Head(data).name)
             mapped == clean_str(Head(data).mapped_name)
         IN BuildMapping(Tail(data),
                         IF name # "" /\ mapped # "" THEN DictPut(m, name, mapped) ELSE m)

Usable(c) == c.exists /\ c.parses

\* A faulty variant: the cache is never read.
FetchCheckCache_skip(next) ==
    /\ pc = "fetch"
    /\ events' = events \o <<"cache_exists">>
    /\ pc' = "request"
    /\ UNCHANGED <<cache_file, cache0, tag_map, net_requests, net_result, cache_writes,
                   run, emailVars, donVars, buildVars, tagVars>>

\* lines 91-95: use the cache when it exists and parses
FetchCheckCache(next) ==
    /\ pc = "fetch"
    /\ \/ /\ cache_file.exists /\ cache_file.parses
          /\ events' = events \o <<"cache_exists", "cache_read">>
          /\ tag_map' = cache_file.content
          /\ pc' = next
       \/ /\ cache_file.exists /\ ~cache_file.parses
          /\ events' = events \o <<"cache_exists", "cache_read">>
          /\ tag_map' = tag_map
          /\ pc' = "request"
       \/ /\ ~cache_file.exists
          /\ events' = events \o <<"cache_exists">>
          /\ tag_map' = tag_map
          /\ pc' = "request"
    /\ UNCHANGED <<cache_file, cache0, net_requests, net_result, cache_writes, run,
                   emailVars, donVars, buildVars, tagVars>>

\* A faulty variant: raise_for_status outside the try, so the HTTPError propagates.
FetchRequest_uncaught(responses, failures, next) ==
    /\ pc = "request"
    /\ net_requests' = net_requests + 1
    /\ events' = Append(events, "net_get")
    /\ \/ \E f \in failures :
             /\ net_result' = f
             /\ tag_map' = <<>>
             /\ pc' = IF f = "http_error" THEN "crashed" ELSE next
       \/ \E data \in responses :
             /\ net_result' = "ok"
             /\ tag_map' = BuildMapping(data, <<>>)
             /\ pc' = "write"
    /\ UNCHANGED <<cache_file, cache0, cache_writes, run,
                   emailVars, donVars, buildVars, tagVars>>

\* lines 97-106, 111-112: one GET; any exception returns {}.  While pc = "write",
\* tag_map holds the local variable mapping.
FetchRequest(responses, failures, next) ==
    /\ pc = "request"
    /\ net_requests' = net_requests + 1
    /\ events' = Append(events, "net_get")
    /\ \/ \E f \in failures :
             /\ net_result' = f
             /\ tag_map' = <<>>
             /\ pc' = next
       \/ \E data \in responses :
             /\ net_result' = "ok"
             /\ tag_map' = BuildMapping(data, <<>>)
             /\ pc' = "write"
    /\ UNCHANGED <<cache_file, cache0, cache_writes, run,
                   emailVars, donVars, buildVars, tagVars>>

\* lines 108-112: persist the mapping and return it; an OSError from mkdir or
\* write_text is caught like any other and {} is returned, the file being left
\* as it was or truncated.
FetchWriteCache(next) ==
    /\ pc = "write"
    /\ cache_writes' = cache_writes + 1
    /\ events' = Append(events, "cache_write")
    /\ \/ /\ cache_file' = GoodCache(tag_map)
          /\ tag_map' = tag_map
       \/ /\ cache_file' \in {cache_file, BadCache}
          /\ tag_map' = <<>>
    /\ pc' = next
    /\ UNCHANGED <<cache0, net_requests, net_result, run,
                   emailVars, donVars, buildVars, tagVars>>

\* the next execution of main(): it finds the cache file the last one left
NewRun ==
    /\ pc = "done"
    /\ run < MaxRuns
    /\ run' = run + 1
    /\ cache0' = cache_file
    /\ tag_map' = <<>>
    /\ net_requests' = 0
    /\ net_result' = "none"
    /\ cache_writes' = 0
    /\ events' = <<>>
    /\ pc' = "fetch"
    /\ UNCHANGED <<cache_file, emailVars, donVars, buildVars, tagVars>>

InitFetch ==
    /\ pc = "fetch"
    /\ InitEmailVars({<<>>})
    /\ InitDonVars({FALSE})
    /\ InitFetchVars(Caches)
    /\ InitBuildVars({<<>>})
    /\ InitTagVars

NextFetch ==
    \/ FetchCheckCache("done")
    \/ FetchRequest(SeqsUpTo(ItemPool, MaxItems), NetFailures, "done")
    \/ FetchWriteCache("done")
    \/ NewRun

SpecFetch == InitFetch /\ [][NextFetch]_vars

-----------------------------------------------------------------------------
(* make_constituents.main *)

\* lines 75-76: strip the identifiers, keep the first row of each
RECURSIVE KeepFirst(_, _)
KeepFirst(df, seen) ==
    IF df = <<>> THEN <<>>
    ELSE IF Head(df).pid \in seen THEN KeepFirst(Tail(df), seen)
    ELSE <<Head(df)>> \o KeepFirst(Tail(df), seen \cup {Head(df).pid})

StripPids(df) == [i \in 1..Len(df) |-> [df[i] EXCEPT !.pid = T_PatronKey[df[i].pid]]]

\* A faulty variant: line 76 left out.
drop_duplicates_none(df) == StripPids(df)

drop_duplicates(df) == KeepFirst(StripPids(df), {})

\* lines 86-136: the output record of one row.  tag_list is mapped_tags, the list
\* that "CB Tags" joins.
build_row(r, lookup, life, rec, m) ==
    LET pid     == T_clean_str[r.pid]
        fn      == T_clean_str[r.first]
        ln      == T_clean_str[r.last]
        company == T_clean_str[r.company]
        ctype   == infer_constituent_type(fn, ln, company)
        pair    == pick_email1_email2(pid, r.email, lookup)
        mapped  == dedupe_preserve_order(DropEmpty(MapTags(m, T_split_tags[r.tags])))
        job     == T_clean_str[r.title]
    IN [id          |-> pid,
        type        |-> ctype,
        first       |-> IF ctype = "Person" THEN fn ELSE "",
        last        |-> IF ctype = "Person" THEN ln ELSE "",
        company     |-> IF ctype = "Company" THEN company ELSE "",
        created_at  |-> T_created_at[r.date],
        email1      |-> pair[1],
        email2      |-> pair[2],
        title       |-> T_title[r.salutation],
        tag_list    |-> mapped,
        tags        |-> Join(mapped, ", "),
        background  |-> IF job # "" THEN "Job Title: " \o job ELSE "",
        lifetime    |-> IF pid \in DOMAIN life THEN fmt_currency(Some(life[pid])) ELSE "",
        mr_date     |-> IF pid \in DOMAIN rec THEN rec[pid].Date_dt.text ELSE "",
        mr_amt      |-> IF pid \in DOMAIN rec THEN fmt_currency(rec[pid].Amount_num) ELSE ""]

\* the issues of one check: a row of df_out[bad] each, in row order
RECURSIVE IssuesWhere(_, _, _, _)
IssuesWhere(out, bad, code, i) ==
    IF i > Len(out) THEN <<>>
    ELSE (IF bad[i] THEN <<[id |-> out[i].id, code |-> code]>> ELSE <<>>)
         \o IssuesWhere(out, bad, code, i + 1)

\* lines 26-28: the identifiers of the rows that repeat an earlier row, each once
DuplicatedIds(out) ==
    LET RECURSIVE walk(_)
        walk(i) == IF i > Len(out) THEN <<>>
                   ELSE (IF \E j \in 1..(i - 1) : out[j].id = out[i].id
                         THEN <<out[i].id>> ELSE <<>>) \o walk(i + 1)
        ids == dedupe_preserve_order(walk(1))
    IN [i \in 1..Len(ids) |-> [id |-> ids[i], code |-> "DUPLICATE_ID"]]

validate_constituents(out) ==
    LET n == Len(out)
        bad_created == [i \in 1..n |-> Strip(out[i].created_at) = ""]
        bad_title   == [i \in 1..n |-> out[i].title \notin ALLOWED_TITLES]
        bad_email2  == [i \in 1..n |-> Strip(out[i].email1) = "" /\ Strip(out[i].email2) # ""]
        eq          == [i \in 1..n |-> Strip(out[i].email1) # "" /\ out[i].email1 = out[i].email2]
    IN DuplicatedIds(out)
       \o IssuesWhere(out, bad_created, "MISSING_CREATED_AT", 1)
       \o IssuesWhere(out, bad_title, "BAD_TITLE", 1)
       \o IssuesWhere(out, bad_email2, "EMAIL2_WITHOUT_EMAIL1", 1)
       \o IssuesWhere(out, eq, "EMAIL_DUP", 1)

DropDuplicates ==
    /\ pc = "dedup"
    /\ df_c' = drop_duplicates(df_c)
    /\ pc' = "emails"
    /\ UNCHANGED <<row_i, rows, issues, emailVars, donVars, fetchVars, tagVars>>

\* one iteration of the loop of lines 85-136
BuildRow ==
    /\ pc = "rows"
    /\ row_i <= Len(df_c)
    /\ rows' = Append(rows, build_row(df_c[row_i], emails_lookup, lifetime, recent, tag_map))
    /\ row_i' = row_i + 1
    /\ UNCHANGED <<pc, df_c, issues, emailVars, donVars, fetchVars, tagVars>>

\* lines 138-142.  With no row at all df_out has no columns, and the first column
\* access of validate_constituents raises KeyError.
Validate ==
    /\ pc = "rows"
    /\ row_i > Len(df_c)
    /\ \/ /\ rows # <<>>
          /\ issues' = validate_constituents(rows)
          /\ pc' = "done"
       \/ /\ rows = <<>>
          /\ issues' = issues
          /\ pc' = "crashed"
    /\ UNCHANGED <<df_c, row_i, rows, emailVars, donVars, fetchVars, tagVars>>

InitBuild ==
    /\ pc = "dedup"
    /\ InitEmailVars(BuildEmailTables)
    /\ has_status = TRUE
    /\ df_d \in BuildDonTables
    /\ lifetime = <<>>
    /\ recent = <<>>
    /\ InitFetchVars(PipelineCaches)
    /\ InitBuildVars(SeqsUpTo(ConstituentRows, MaxRows))
    /\ InitTagVars

NextBuild ==
    \/ DropDuplicates
    \/ BuildEmailLookup("donations")
    \/ BuildDonationAggregates("fetch")
    \/ FetchCheckCache("rows")
    \/ FetchRequest({<<[name |-> "vip", mapped_name |-> "VIP-Tier"]>>}, {"timeout"}, "rows")
    \/ FetchWriteCache("rows")
    \/ BuildRow
    \/ Validate

SpecBuild == InitBuild /\ [][NextBuild]_vars

-----------------------------------------------------------------------------
(* make_tags.main *)

\* lines 30-34: the canonical tags of one row
row_tags(r, m) == dedupe_preserve_order(StripNonBlank(MapTags(m, T_split_tags[r.tags])))

\* the rows of the report in the order of sort_values: count descending, then
\* tag ascending
RECURSIVE SortReport(_)
SortReport(R) ==
    IF R = {} THEN <<>>
    ELSE LET top == CHOOSE x \in R : \A y \in R \ {x} :
                        x.count > y.count \/ (x.count = y.count /\ StrLess(x.tag, y.tag))
         IN <<top>> \o SortReport(R \ {top})

\* A faulty variant: counts rows, not distinct identifiers.
tag_report_rows(ps) ==
    LET tags == {ps[i][2] : i \in 1..Len(ps)}
    IN SortReport({[tag |-> t, count |-> Cardinality({i \in 1..Len(ps) : ps[i][2] = t})]
                      : t \in tags})

\* lines 39-56: drop_duplicates, groupby("Tag")["Patron ID"].nunique(), sort_values
build_tag_report(ps) ==
    LET u    == dedupe_preserve_order(ps)
        tags == {u[i][2] : i \in 1..Len(u)}
    IN SortReport({[tag |-> t,
                    count |-> Cardinality({u[i][1] : i \in {j \in 1..Len(u) : u[j][2] = t}})]
                      : t \in tags})

\* one iteration of the loop of lines 29-37 (line 22 strips the identifier)
TagsRow ==
    /\ pc = "tagrows"
    /\ row_i <= Len(df_c)
    /\ LET pid == clean_str(T_PatronKey[df_c[row_i].pid])
           ts  == row_tags(df_c[row_i], tag_map)
       IN pairs' = pairs \o [i \in 1..Len(ts) |-> <<pid, ts[i]>>]
    /\ row_i' = row_i + 1
    /\ UNCHANGED <<pc, tag_report, df_c, rows, issues, emailVars, donVars, fetchVars>>

TagsReport ==
    /\ pc = "tagrows"
    /\ row_i > Len(df_c)
    /\ tag_report' = IF pairs = <<>> THEN <<>> ELSE build_tag_report(pairs)
    /\ pc' = "done"
    /\ UNCHANGED <<pairs, buildVars, emailVars, donVars, fetchVars>>

InitTags ==
    /\ pc = "fetch"
    /\ InitEmailVars({<<>>})
    /\ InitDonVars({FALSE})
    /\ InitFetchVars(PipelineCaches)
    /\ InitBuildVars(SeqsUpTo(TagRows, MaxTagRows))
    /\ InitTagVars

NextTags ==
    \/ FetchCheckCache("tagrows")
    \/ FetchRequest({<<[name |-> "vip", mapped_name |-> "VIP-Tier"]>>}, {"timeout"}, "tagrows")
    \/ FetchWriteCache("tagrows")
    \/ TagsRow
    \/ TagsReport

SpecTags == InitTags /\ [][NextTags]_vars

-----------------------------------------------------------------------------
(* Claims about the e-mail resolver (SpecEmail) *)

\* the valid normalized addresses the e-mail table holds for an identifier
AddressesOf(pid) ==
    {normalize_email(df_e[i].email) :
        i \in {j \in 1..Len(df_e) : PatronKey(df_e[j].pid) = pid}} \ {""}

\* the least string of a non-empty set, in code-point order
MinStr(S) == CHOOSE x \in S : \A y \in S : x = y \/ StrLess(x, y)

\* df_e with every repeated (Patron ID, Email) row dropped
RECURSIVE DropRepeatedRows(_)
DropRepeatedRows(df) ==
    IF df = <<>> THEN <<>>
    ELSE LET init == DropRepeatedRows(SubSeq(df, 1, Len(df) - 1))
             last == df[Len(df)]
         IN IF \E i \in 1..Len(init) : init[i] = last THEN init ELSE Append(init, last)

\* C1: whatever the identifier, the raw primary e-mail and the index built from
\* the e-mail table, the returned pair has no email2 without an email1, and its
\* two addresses differ when both are present.
C1_EmailPairInvariant ==
    pc = "picked" =>
        /\ email_pair[1] = "" => email_pair[2] = ""
        /\ (email_pair[1] # "" /\ email_pair[2] # "") => email_pair[1] # email_pair[2]

\* C1 witness: the primary e-mail is valid and is also the first entry of the
\* identifier's index, and an email2 was still found.
C1_Witness ==
    /\ pc = "picked"
    /\ normalize_email(email_query[2]) # ""
    /\ LookupGet(emails_lookup, email_query[1]) # <<>>
    /\ LookupGet(emails_lookup, email_query[1])[1] = normalize_email(email_query[2])
    /\ email_pair[2] # ""

\* C2: email1 is the normalized primary e-mail when valid, else the least address
\* of the identifier (empty when it has none); email2 is the least address of the
\* identifier other than email1 (empty when there is none, or when email1 is
\* empty); repeated rows of the e-mail table do not change the pair.
C2_EmailPairSelection ==
    pc = "picked" =>
        LET pid     == email_query[1]
            primary == normalize_email(email_query[2])
            S       == AddressesOf(pid)
            e1      == IF primary # "" THEN primary
                       ELSE IF S # {} THEN MinStr(S) ELSE ""
            e2      == IF e1 = "" \/ S \ {e1} = {} THEN "" ELSE MinStr(S \ {e1})
        IN /\ email_pair = <<e1, e2>>
           /\ email_pair = pick_email1_email2(pid, email_query[2],
                                              build_email_lookup(DropRepeatedRows(df_e)))

\* C2 witness: the table repeats a row of the identifier, the primary e-mail is
\* invalid, and both addresses come from the index.
C2_Witness ==
    /\ pc = "picked"
    /\ DropRepeatedRows(df_e) # df_e
    /\ normalize_email(email_query[2]) = ""
    /\ Cardinality(AddressesOf(email_query[1])) = 2
    /\ email_pair[1] # ""
    /\ email_pair[2] # ""

-----------------------------------------------------------------------------
(* Claims about the donation aggregator (SpecDonation) *)

DonationKeys == {T_PatronKey[df_d[i].pid] : i \in 1..Len(df_d)} \cup {"P9"}

\* the rows of an identifier that take part in the aggregation
PaidRowsOf(pid) ==
    {i \in 1..Len(df_d) :
        /\ T_PatronKey[df_d[i].pid] = pid
        /\ has_status => T_IsPaid[df_d[i].status]}

RECURSIVE SumOver(_)
SumOver(is) ==
    IF is = {} THEN 0
    ELSE LET i == CHOOSE j \in is : TRUE
         IN T_parse_amount[df_d[i].amount][1] + SumOver(is \ {i})

\* C3: mostRecent of an identifier is its retained record with the greatest
\* parsed date, the first of them in table order when several share that date;
\* an identifier with no retained record with a parsable date has no entry.
C3_MostRecent ==
    pc = "aggregated" =>
        \A pid \in DonationKeys :
            LET M == {i \in PaidRowsOf(pid) : T_to_datetime[df_d[i].date] # NaT}
            IN IF M = {} THEN pid \notin DOMAIN recent
               ELSE /\ pid \in DOMAIN recent
                    /\ \E i \in M :
                          /\ \A j \in M : ~TsLess(T_to_datetime[df_d[i].date],
                                                  T_to_datetime[df_d[j].date])
                          /\ \A j \in M : j < i => TsLess(T_to_datetime[df_d[j].date],
                                                          T_to_datetime[df_d[i].date])
                          /\ recent[pid].Date_dt = T_to_datetime[df_d[i].date]
                          /\ recent[pid].Amount_num = T_parse_amount[df_d[i].amount]

\* C3 witness: two retained records of one identifier share the greatest date and
\* differ in amount.
C3_Witness ==
    /\ pc = "aggregated"
    /\ \E i, j \in 1..Len(df_d) :
          /\ i < j
          /\ T_PatronKey[df_d[i].pid] = T_PatronKey[df_d[j].pid]
          /\ {i, j} \subseteq PaidRowsOf(T_PatronKey[df_d[i].pid])
          /\ T_to_datetime[df_d[i].date] # NaT
          /\ df_d[i].date = df_d[j].date
          /\ T_parse_amount[df_d[i].amount] # T_parse_amount[df_d[j].amount]
          /\ recent[T_PatronKey[df_d[i].pid]].Amount_num = T_parse_amount[df_d[i].amount]

\* C4: the lifetime total of an identifier is the sum of parse_amount over exactly
\* its paid records (all its records without a Status column) with a parsable
\* amount; an identifier with no such record has no entry.
C4_LifetimeTotal ==
    pc = "aggregated" =>
        \A pid \in DonationKeys :
            LET K == {i \in PaidRowsOf(pid) : T_parse_amount[df_d[i].amount] # None}
            IN IF K = {} THEN pid \notin DOMAIN lifetime
               ELSE pid \in DOMAIN lifetime /\ lifetime[pid] = SumOver(K)

\* C4 witness: a Status column, an identifier with a paid parsable record that
\* counts and a non-paid parsable record that does not.
C4_Witness ==
    /\ pc = "aggregated"
    /\ has_status
    /\ \E i, j \in 1..Len(df_d) :
          /\ T_PatronKey[df_d[i].pid] = T_PatronKey[df_d[j].pid]
          /\ i \in PaidRowsOf(T_PatronKey[df_d[i].pid])
          /\ j \notin PaidRowsOf(T_PatronKey[df_d[i].pid])
          /\ T_parse_amount[df_d[i].amount] # None
          /\ T_parse_amount[df_d[j].amount] # None
          /\ lifetime[T_PatronKey[df_d[i].pid]] = T_parse_amount[df_d[i].amount][1]

-----------------------------------------------------------------------------
(* Claims about fetch_tag_mapping (SpecFetch) *)

\* C5: in every run the cache is consulted before the network; a cache that
\* exists and parses is returned as it is, with no request and no write; the
\* network is asked only when the cache is absent or unparsable, at most once;
\* the cache file is written only after a successful fetch.
C5_CacheBeforeNetwork ==
    /\ net_requests <= 1
    /\ cache_writes <= 1
    /\ \A i \in 1..Len(events) :
          events[i] \in {"net_get", "cache_write"} => events[1] = "cache_exists"
    /\ \A i \in 1..Len(events) :
          events[i] = "cache_write" => \E j \in 1..(i - 1) : events[j] = "net_get"
    /\ Usable(cache0) =>
          /\ net_requests = 0
          /\ cache_writes = 0
          /\ cache_file = cache0
          /\ pc = "done" => tag_map = cache0.content
    /\ net_requests > 0 => ~Usable(cache0)
    /\ (cache_writes > 0 \/ cache_file # cache0) => net_result = "ok"

\* C5 witness: a second run returns the mapping the first run fetched and cached,
\* without a request.
C5_Witness ==
    /\ run = 2
    /\ pc = "done"
    /\ Usable(cache0)
    /\ cache0.content # <<>>
    /\ tag_map = cache0.content
    /\ net_requests = 0

\* C6: with no usable cache and a failing source, fetch_tag_mapping returns the
\* empty mapping and the run goes on; every tag then resolves to itself.
C6_FallbackIdentity ==
    (~Usable(cache0) /\ net_result \in NetFailures) =>
        /\ pc = "done"
        /\ tag_map = <<>>
        /\ \A t \in TagPool : map_tag(tag_map, t) = t

\* C6 witness: an unparsable cache, then a non-success status.
C6_Witness ==
    /\ pc = "done"
    /\ cache0 = BadCache
    /\ net_result = "http_error"
    /\ map_tag(tag_map, "VIP") = "VIP"

-----------------------------------------------------------------------------
(* Claims about make_constituents.main (SpecBuild).  rows[k] is the record of *)
(* df_c[k], the k-th row left by drop_duplicates.                             *)

NamePopulated(r) == r.first # "" \/ r.last # ""

\* C7 as claimed: a Company record has a company and no name, a Person record has
\* a name and no company, whatever the input row.
C7_ExactlyOnePopulated ==
    \A k \in 1..Len(rows) :
        /\ rows[k].type = "Company" =>
              rows[k].company # "" /\ ~NamePopulated(rows[k])
        /\ rows[k].type = "Person" =>
              NamePopulated(rows[k]) /\ rows[k].company = ""

\* C7 as amended: a record is a Company exactly when its row has a company and
\* neither a first nor a last name, and then it has that company and no name; any
\* other record is a Person with no company and the row's trimmed first and last
\* names, either of which may be empty.  Name and company are never both populated.
C7_TypeDeterminesFields ==
    \A k \in 1..Len(rows) :
        LET fn      == clean_str(df_c[k].first)
            ln      == clean_str(df_c[k].last)
            company == clean_str(df_c[k].company)
        IN /\ rows[k].type \in {"Company", "Person"}
           /\ rows[k].type = "Company" <=> (company # "" /\ fn = "" /\ ln = "")
           /\ rows[k].type = "Company" =>
                 rows[k].company = company /\ rows[k].company # "" /\ ~NamePopulated(rows[k])
           /\ rows[k].type = "Person" =>
                 rows[k].company = "" /\ rows[k].first = fn /\ rows[k].last = ln
           /\ ~(NamePopulated(rows[k]) /\ rows[k].company # "")

\* C7 witness: a Company record next to a Person record of a row that has no
\* name and no company, so that neither is populated.
C7_Witness ==
    /\ pc = "done"
    /\ \E k \in 1..Len(rows) : rows[k].type = "Company" /\ rows[k].company = "Acme"
    /\ \E k \in 1..Len(rows) :
          /\ rows[k].type = "Person"
          /\ ~NamePopulated(rows[k])
          /\ rows[k].company = ""

FirstIndex(seq, x) == CHOOSE i \in 1..Len(seq) : seq[i] = x /\ \A j \in 1..(i - 1) : seq[j] # x

\* C8: the tag list of a record is its raw tags split on commas and trimmed, each
\* put through the mapping (itself when unmapped), without the empty results and
\* without repeats, in the order of first occurrence.
C8_CanonicalTags ==
    pc \in {"rows", "done"} =>
        \A k \in 1..Len(rows) :
            LET raw == split_tags(df_c[k].tags)
                mp  == MapTags(tag_map, raw)
                L   == rows[k].tag_list
            IN /\ \A i \in 1..Len(raw) :
                     raw[i] # "" /\ raw[i] = Strip(raw[i]) /\ "," \notin Range(Chars(raw[i]))
               /\ \A i \in 1..Len(L) : L[i] # ""
               /\ \A i, j \in 1..Len(L) : i # j => L[i] # L[j]
               /\ Range(L) = Range(mp) \ {""}
               /\ \A i, j \in 1..Len(L) : i < j => FirstIndex(mp, L[i]) < FirstIndex(mp, L[j])
               /\ rows[k].tags = Join(L, ", ")
               /\ (df_c[k].tags = "vip, vip, donor" /\ tag_map = [t \in {"vip"} |-> "VIP-Tier"])
                     => rows[k].tags = "VIP-Tier, donor"

\* C8 witness: two different raw tags of a row map to the same canonical tag, a
\* third maps to the empty string, and the record lists the canonical tag once.
C8_Witness ==
    /\ pc = "done"
    /\ \E k \in 1..Len(rows) :
          /\ df_c[k].tags = "gold,VIP-Tier, ,blank"
          /\ map_tag(tag_map, "gold") = "VIP-Tier"
          /\ map_tag(tag_map, "blank") = ""
          /\ rows[k].tags = "VIP-Tier"

\* C10: the records the pipeline builds never draw DUPLICATE_ID, BAD_TITLE,
\* EMAIL2_WITHOUT_EMAIL1 or EMAIL_DUP from validate_constituents: identifiers are
\* unique, titles are allowed ones, e-mail pairs are consistent; MISSING_CREATED_AT
\* is the only code that occurs.
C10_OnlyMissingCreatedAt ==
    pc = "done" =>
        /\ \A i \in 1..Len(issues) : issues[i].code = "MISSING_CREATED_AT"
        /\ \A i, j \in 1..Len(rows) : i # j => rows[i].id # rows[j].id
        /\ \A k \in 1..Len(rows) :
              /\ rows[k].title \in ALLOWED_TITLES
              /\ rows[k].email1 = "" => rows[k].email2 = ""
              /\ rows[k].email1 # "" => rows[k].email1 # rows[k].email2

\* C10 witness: two records, one with an unparseable entry date and an unknown
\* salutation, one with both e-mail addresses; the report has an issue.
C10_Witness ==
    /\ pc = "done"
    /\ Len(rows) = 2
    /\ \E k \in 1..Len(rows) :
          df_c[k].salutation = "Prof." /\ rows[k].created_at = "" /\ rows[k].title = ""
    /\ \E k \in 1..Len(rows) : rows[k].email1 # "" /\ rows[k].email2 # ""
    /\ \E i \in 1..Len(issues) : issues[i].code = "MISSING_CREATED_AT"

-----------------------------------------------------------------------------
(* Claims about make_tags.main (SpecTags) *)

TagKeys == {T_PatronKey[(df_c[i].pid)] : i \in 1..Len(df_c)}

\* the canonical tags an identifier references, over all its rows
CanonicalTagsOf(pid) ==
    UNION {{Strip(map_tag(tag_map, t)) : t \in Range(T_split_tags[df_c[i].tags])}
              : i \in {j \in 1..Len(df_c) : T_PatronKey[(df_c[j].pid)] = pid}} \ {""}

\* C9: the report has one row per canonical tag that occurs, with the number of
\* distinct identifiers that reference it, ordered by count descending and then by
\* tag ascending; with no tag at all the report is empty.
C9_TagReport ==
    pc = "done" =>
        LET all == UNION {CanonicalTagsOf(pid) : pid \in TagKeys}
        IN /\ {tag_report[i].tag : i \in 1..Len(tag_report)} = all
           /\ Len(tag_report) = Cardinality(all)
           /\ \A i \in 1..Len(tag_report) :
                 tag_report[i].count =
                    Cardinality({pid \in TagKeys : tag_report[i].tag \in CanonicalTagsOf(pid)})
           /\ \A i, j \in 1..Len(tag_report) :
                 i < j => \/ tag_report[i].count > tag_report[j].count
                          \/ /\ tag_report[i].count = tag_report[j].count
                             /\ StrLess(tag_report[i].tag, tag_report[j].tag)
           /\ all = {} => tag_report = <<>>

\* C9 witness: an identifier on two rows and a second identifier reference the
\* same canonical tag, which the report counts twice.
C9_Witness ==
    /\ pc = "done"
    /\ \E i, j, k \in 1..Len(df_c) :
          /\ i # j
          /\ T_PatronKey[(df_c[i].pid)] = T_PatronKey[(df_c[j].pid)]
          /\ T_PatronKey[(df_c[k].pid)] # T_PatronKey[(df_c[i].pid)]
          /\ \A n \in {i, j, k} : "VIP-Tier" \in CanonicalTagsOf(T_PatronKey[(df_c[n].pid)])
          /\ "VIP-Tier" \in Range(row_tags(df_c[i], tag_map))
          /\ "VIP-Tier" \in Range(row_tags(df_c[j], tag_map))
    /\ \E n \in 1..Len(tag_report) : tag_report[n] = [tag |-> "VIP-Tier", count |-> 2]

=============================================================================
